---- MODULE Spec2Model ----
(***************************************************************************)
(* AMZL-Staffing: the floor model (Floor / Cluster / Aisle / AislePair)   *)
(* and the slot allocator (StowSlot / StowSlotBuilder) of src/src/models.rs *)
(*                                                                         *)
(* Encoding conventions                                                    *)
(*  - Option<T>: None is <<>>, Some(x) is <<x>>.                            *)
(*  - Vec<T> is a sequence; Rust index i is TLA+ index i + 1.               *)
(*  - f32 rates are exact rationals [n, d] with d > 0: the counts of the   *)
(*    model are far below 2^24, where f32 division by TOTAL_HOURS orders   *)
(*    values exactly as the rationals do.                                  *)
(*  - An unsigned value that wrapped below zero (release build) is kept as *)
(*    the negative number with the same bit pattern: 0u32 - 1 = 2^32 - 1   *)
(*    is written -1. It equals no index and no aisle number of the model.  *)
(*  - Rc<Aisle>: the Aisle record plus `shared` (strong count > 1).        *)
(***************************************************************************)
EXTENDS Integers, Sequences, FiniteSets, TLC

VARIABLES
    bags,             \* Vec<BagRecord> read from the csv file
    floor,            \* Floor (the builder's Rc<RefCell<Floor>>)
    stow_slots,       \* StowSlotBuilder.stow_slots
    lowest_pph,       \* start_algorithm_target_hc's candidate list
    pc,               \* position of the single thread of control
    call,             \* the operation called last, with its arguments
    ret,              \* what that operation returned
    ops,              \* allocator calls made so far
    TOTAL_HOURS,      \* the process-wide TOTAL_HOURS, a rational
    overflow_checks   \* build profile: TRUE = arithmetic overflow panics

vars == <<bags, floor, stow_slots, lowest_pph, pc, call, ret, ops,
          TOTAL_HOURS, overflow_checks>>

---------------------------------------------------------------------------
(* Bounds of the model *)

MaxAisle == 6        \* aisle numbers of the allocator's floors: 0..MaxAisle
MaxBags == 3         \* records of an arbitrary input file
MaxShortAisle == 2   \* aisle numbers of an arbitrary input file
MaxOps == 2          \* allocator calls made on one builder
MaxLocked == 1       \* floor aisles the planner locks
MaxCandAisles == 2   \* aisles of a manually proposed slot
MaxStrLen == 7       \* characters of a sort zone string

(* Program constants *)
FloaterPph == 150            \* models.rs:466
AislePairRange == 3          \* models.rs:801
FillMaxAisleCount == 2       \* models.rs:808

\* u32::MAX = 4294967295 = U32MaxDiv10 * 10 + U32MaxMod10
U32MaxDiv10 == 429496729
U32MaxMod10 == 5

Clusters == {"A", "B"}
PackageCounts == {50, 100}
HoursChoices == {[n |-> 1, d |-> 1], [n |-> 13, d |-> 2]}   \* 1.0 and 6.5
DefaultHours == [n |-> 13, d |-> 2]

---------------------------------------------------------------------------
(* Option and sequence helpers *)

None == <<>>
Some(x) == <<x>>
IsSome(o) == o # <<>>
Unwrap(o) == o[1]

RECURSIVE SumSeq(_)
SumSeq(s) == IF s = <<>> THEN 0 ELSE Head(s) + SumSeq(Tail(s))

\* Iterator::position / find: the first TLA+ index whose element has key k,
\* 0 when there is none.
PositionAisle(aisles, num) ==
    IF \E i \in 1..Len(aisles) : aisles[i].aisle_num = num
    THEN CHOOSE i \in 1..Len(aisles) :
            /\ aisles[i].aisle_num = num
            /\ \A j \in 1..(i - 1) : aisles[j].aisle_num # num
    ELSE 0

PositionCluster(clusters, c) ==
    IF \E i \in 1..Len(clusters) : clusters[i].cluster = c
    THEN CHOOSE i \in 1..Len(clusters) :
            /\ clusters[i].cluster = c
            /\ \A j \in 1..(i - 1) : clusters[j].cluster # c
    ELSE 0

\* Vec::sort_by_key(|a| a.aisle_num): a stable sort, here by insertion.
RECURSIVE InsertByAisleNum(_, _)
InsertByAisleNum(sorted, a) ==
    IF sorted = <<>> THEN <<a>>
    ELSE IF a.aisle_num < Head(sorted).aisle_num THEN <<a>> \o sorted
    ELSE <<Head(sorted)>> \o InsertByAisleNum(Tail(sorted), a)

\* SortByAisleNum with a slip: the order is left as it is.
SortByAisleNumKeep(s) == s

RECURSIVE SortByAisleNum(_)
SortByAisleNum(s) ==
    IF s = <<>> THEN <<>>
    ELSE InsertByAisleNum(SortByAisleNum(SubSeq(s, 1, Len(s) - 1)), s[Len(s)])

---------------------------------------------------------------------------
(* Aisle *)

NewAisle(c, num, records) ==
    [cluster |-> c, aisle_num |-> num, bag_records |-> records, locked |-> FALSE]

RECURSIVE SumPackages(_)
SumPackages(records) ==
    IF records = <<>> THEN 0
    ELSE Head(records).planned_package_count + SumPackages(Tail(records))

AisleTotalPackages(a) == SumPackages(a.bag_records)

AisleToggleLock(a) == [a EXCEPT !.locked = ~a.locked]

---------------------------------------------------------------------------
(* Cluster *)

GetAisle(cluster, num) ==
    LET i == PositionAisle(cluster.aisles, num)
    IN  IF i = 0 THEN None ELSE Some(cluster.aisles[i])

GetNextAisle(cluster, num) ==
    LET i == PositionAisle(cluster.aisles, num + 1)
    IN  IF i = 0 THEN None ELSE Some(cluster.aisles[i])

\* `aisle - 1` on u32, evaluated by the closure once per aisle looked at:
\* with overflow checks it panics for aisle = 0 as soon as the cluster has an
\* aisle; without them it wraps to 2^32 - 1 (written -1 here).
GetPreviousAislePanics(cluster, num) ==
    overflow_checks /\ num = 0 /\ cluster.aisles # <<>>

GetPreviousAisle(cluster, num) ==
    LET i == PositionAisle(cluster.aisles, num - 1)
    IN  IF i = 0 THEN None ELSE Some(cluster.aisles[i])

\* Variants of PairsFrom with a slip in them: one that starts a pair from
\* every aisle, one that keeps complete pairs only.
RECURSIVE PairsFromAny(_, _)
PairsFromAny(aisles, i) ==
    IF i > Len(aisles) THEN <<>>
    ELSE LET next_idx == PositionAisle(aisles, aisles[i].aisle_num + 1)
             pair == [aisle1 |-> Some(aisles[i]),
                      aisle2 |-> IF next_idx = 0 THEN None
                                 ELSE Some(aisles[next_idx])]
         IN  <<pair>> \o PairsFromAny(aisles, i + 1)

RECURSIVE PairsFromComplete(_, _)
PairsFromComplete(aisles, i) ==
    IF i > Len(aisles) THEN <<>>
    ELSE IF aisles[i].aisle_num % 2 = 0 THEN PairsFromComplete(aisles, i + 1)
    ELSE LET next_idx == PositionAisle(aisles, aisles[i].aisle_num + 1)
         IN  IF next_idx = 0 THEN PairsFromComplete(aisles, i + 1)
             ELSE <<[aisle1 |-> Some(aisles[i]), aisle2 |-> Some(aisles[next_idx])]>>
                  \o PairsFromComplete(aisles, i + 1)

RECURSIVE PairsFrom(_, _)
PairsFrom(aisles, i) ==
    IF i > Len(aisles) THEN <<>>
    ELSE IF aisles[i].aisle_num % 2 = 0 THEN PairsFrom(aisles, i + 1)
    ELSE LET next_idx == PositionAisle(aisles, aisles[i].aisle_num + 1)
             pair == [aisle1 |-> Some(aisles[i]),
                      aisle2 |-> IF next_idx = 0 THEN None
                                 ELSE Some(aisles[next_idx])]
         IN  <<pair>> \o PairsFrom(aisles, i + 1)

ClusterGenerateAislePairs(cluster) ==
    LET sorted == SortByAisleNum(cluster.aisles)
    IN  [cluster EXCEPT !.aisles = sorted, !.aisle_pairs = PairsFrom(sorted, 1)]

GetAislesFromPair(pair) ==
    (IF IsSome(pair.aisle1) THEN <<Unwrap(pair.aisle1)>> ELSE <<>>)
    \o (IF IsSome(pair.aisle2) THEN <<Unwrap(pair.aisle2)>> ELSE <<>>)

PairHasAisle(p, num) ==
    \/ IsSome(p.aisle1) /\ Unwrap(p.aisle1).aisle_num = num
    \/ IsSome(p.aisle2) /\ Unwrap(p.aisle2).aisle_num = num

\* The Rust index (from 0) of the first pair holding the aisle number, None
\* when no pair holds it.
GetPairFromAisle(cluster, num) ==
    LET ps == cluster.aisle_pairs
    IN  IF \E i \in 1..Len(ps) : PairHasAisle(ps[i], num)
        THEN Some((CHOOSE i \in 1..Len(ps) :
                      /\ PairHasAisle(ps[i], num)
                      /\ \A j \in 1..(i - 1) : ~PairHasAisle(ps[j], num)) - 1)
        ELSE None

ClusterTotalPackages(cluster) ==
    SumSeq([i \in 1..Len(cluster.aisles) |-> AisleTotalPackages(cluster.aisles[i])])

---------------------------------------------------------------------------
(* Floor *)

\* FoldBag with a slip: the record replaces the aisle's records.
FoldBagReplacing(clusters, bag) ==
    LET c == bag.cluster
        num == bag.aisle
        ci == PositionCluster(clusters, c)
    IN  IF ci # 0
        THEN LET ai == PositionAisle(clusters[ci].aisles, num)
             IN  IF ai # 0
                 THEN [clusters EXCEPT ![ci].aisles[ai].bag_records = <<bag>>]
                 ELSE [clusters EXCEPT ![ci].aisles =
                                            Append(@, NewAisle(c, num, <<bag>>))]
        ELSE Append(clusters, [cluster |-> c,
                               aisles |-> <<NewAisle(c, num, <<bag>>)>>,
                               aisle_pairs |-> <<>>])

\* One step of the fold of Floor::new: find or create the cluster, find or
\* create the aisle, push the record.
FoldBag(clusters, bag) ==
    LET c == bag.cluster
        num == bag.aisle
        ci == PositionCluster(clusters, c)
    IN  IF ci # 0
        THEN LET ai == PositionAisle(clusters[ci].aisles, num)
             IN  IF ai # 0
                 THEN [clusters EXCEPT ![ci].aisles[ai].bag_records =
                                            Append(@, bag)]
                 ELSE [clusters EXCEPT ![ci].aisles =
                                            Append(@, NewAisle(c, num, <<bag>>))]
        ELSE Append(clusters, [cluster |-> c,
                               aisles |-> <<NewAisle(c, num, <<bag>>)>>,
                               aisle_pairs |-> <<>>])

RECURSIVE FoldBags(_, _)
FoldBags(clusters, bs) ==
    IF bs = <<>> THEN clusters ELSE FoldBags(FoldBag(clusters, Head(bs)), Tail(bs))

FloorGenerateAislePairs(f) ==
    [clusters |-> [i \in 1..Len(f.clusters) |->
                      ClusterGenerateAislePairs(f.clusters[i])]]

FloorNew(bs) ==
    LET folded == FoldBags(<<>>, bs)
        sorted == [i \in 1..Len(folded) |->
                      [folded[i] EXCEPT !.aisles = SortByAisleNum(@)]]
    IN  FloorGenerateAislePairs([clusters |-> sorted])

FloorGetCluster(f, c) ==
    LET i == PositionCluster(f.clusters, c)
    IN  IF i = 0 THEN None ELSE Some(f.clusters[i])

FloorGetTotalPackages(f) ==
    SumSeq([i \in 1..Len(f.clusters) |-> ClusterTotalPackages(f.clusters[i])])

EmptyFloor == [clusters |-> <<>>]

---------------------------------------------------------------------------
(* Rationals standing for the f32 rates *)

RatLe(a, b) == a.n * b.d <= b.n * a.d
RatLt(a, b) == a.n * b.d < b.n * a.d
RatOfInt(k) == [n |-> k, d |-> 1]

\* `total as f32 / *TOTAL_HOURS`
DivHours(total) == [n |-> total * TOTAL_HOURS.d, d |-> TOTAL_HOURS.n]

---------------------------------------------------------------------------
(* StowSlot *)

\* Rc::clone of an aisle the floor holds, and Rc::new of an aisle nobody
\* else holds.
RcClone(a) ==
    [cluster |-> a.cluster, aisle_num |-> a.aisle_num,
     bag_records |-> a.bag_records, locked |-> a.locked, shared |-> TRUE]

RcNew(a) ==
    [cluster |-> a.cluster, aisle_num |-> a.aisle_num,
     bag_records |-> a.bag_records, locked |-> a.locked, shared |-> FALSE]

SlotTotalPackages(aisles) ==
    SumSeq([i \in 1..Len(aisles) |-> AisleTotalPackages(aisles[i])])

\* UpdatePph with a slip: the floater threshold taken as exclusive.
UpdatePphStrict(slot) ==
    LET pph == DivHours(SlotTotalPackages(slot.aisles))
    IN  [slot EXCEPT !.pph = pph,
                     !.is_floater = RatLt(pph, RatOfInt(FloaterPph))]

UpdatePph(slot) ==
    LET pph == DivHours(SlotTotalPackages(slot.aisles))
    IN  [slot EXCEPT !.pph = pph,
                     !.is_floater = RatLe(pph, RatOfInt(FloaterPph))]

StowSlotNew(c, aisles) ==
    UpdatePph([cluster |-> c, aisles |-> aisles, is_floater |-> FALSE,
               pph |-> RatOfInt(0), locked |-> FALSE])

AddAisle(slot, aisle) ==
    UpdatePph([slot EXCEPT !.aisles = Append(@, aisle)])

AddAisles(slot, aisles) ==
    UpdatePph([slot EXCEPT !.aisles = @ \o aisles])

\* Rc::get_mut gives the aisle only when this slot holds the one handle.
StowSlotToggleLock(slot) ==
    LET l == ~slot.locked
    IN  [slot EXCEPT !.locked = l,
                     !.aisles = [i \in 1..Len(slot.aisles) |->
                                    IF slot.aisles[i].shared THEN slot.aisles[i]
                                    ELSE [slot.aisles[i] EXCEPT !.locked = l]]]

---------------------------------------------------------------------------
(* AislePair *)

\* AislePair::get_aisles hands out the first aisle only.
AislePairGetAisles(pair) ==
    IF IsSome(pair.aisle1) THEN <<RcClone(Unwrap(pair.aisle1))>> ELSE <<>>

AnyLocked(aisles) == \E i \in 1..Len(aisles) : aisles[i].locked
AnyUnlocked(aisles) == \E i \in 1..Len(aisles) : ~aisles[i].locked

\* Vec::get with a Rust index; a wrapped (negative) index is out of range.
PairsGet(pairs, idx) ==
    IF idx >= 0 /\ idx < Len(pairs) THEN Some(pairs[idx + 1]) ELSE None

RECURSIVE InsertPair(_, _)
InsertPair(sorted, p) ==
    IF sorted = <<>> THEN <<p>>
    ELSE IF Unwrap(p.aisle1).aisle_num < Unwrap(Head(sorted).aisle1).aisle_num
         THEN <<p>> \o sorted
         ELSE <<Head(sorted)>> \o InsertPair(Tail(sorted), p)

RECURSIVE SortPairs(_)
SortPairs(ps) ==
    IF ps = <<>> THEN <<>>
    ELSE InsertPair(SortPairs(SubSeq(ps, 1, Len(ps) - 1)), ps[Len(ps)])

---------------------------------------------------------------------------
(* StowSlotBuilder: the pure parts *)

SlotHasAisle(slot, aisle) ==
    \E i \in 1..Len(slot.aisles) :
        /\ slot.aisles[i].aisle_num = aisle.aisle_num
        /\ slot.aisles[i].cluster = aisle.cluster

\* GetStowSlotFromAisle with a slip: the cluster is not compared.
GetStowSlotFromAisleNum(slots, aisle) ==
    LET has(slot) == \E i \in 1..Len(slot.aisles) :
                        slot.aisles[i].aisle_num = aisle.aisle_num
    IN  IF \E i \in 1..Len(slots) : has(slots[i])
        THEN CHOOSE i \in 1..Len(slots) :
                /\ has(slots[i])
                /\ \A j \in 1..(i - 1) : ~has(slots[j])
        ELSE 0

\* The TLA+ index of the first slot that holds the aisle, 0 when none does.
GetStowSlotFromAisle(slots, aisle) ==
    IF \E i \in 1..Len(slots) : SlotHasAisle(slots[i], aisle)
    THEN CHOOSE i \in 1..Len(slots) :
            /\ SlotHasAisle(slots[i], aisle)
            /\ \A j \in 1..(i - 1) : ~SlotHasAisle(slots[j], aisle)
    ELSE 0

\* The first loop of start_algorithm_target_pph: (cluster, aisle, previous)
\* for every aisle, clusters and aisles in floor order.
ClusterAssignments(cluster) ==
    [i \in 1..Len(cluster.aisles) |->
        [cluster_char |-> cluster.cluster,
         aisle |-> cluster.aisles[i],
         previous |-> GetPreviousAisle(cluster, cluster.aisles[i].aisle_num)]]

RECURSIVE AisleAssignments(_, _)
AisleAssignments(clusters, i) ==
    IF i > Len(clusters) THEN <<>>
    ELSE ClusterAssignments(clusters[i]) \o AisleAssignments(clusters, i + 1)

\* AssignAisle with a slip: a slot exactly at the target is taken as full.
AssignAisleBelow(slots, asg, target_pph) ==
    LET fresh == StowSlotNew(asg.cluster_char, <<RcClone(asg.aisle)>>)
    IN  IF IsSome(asg.previous)
        THEN LET k == GetStowSlotFromAisle(slots, Unwrap(asg.previous))
             IN  IF k # 0 /\ RatLt(slots[k].pph, RatOfInt(target_pph))
                 THEN [slots EXCEPT ![k] = AddAisle(@, RcClone(asg.aisle))]
                 ELSE Append(slots, fresh)
        ELSE Append(slots, fresh)

\* One turn of the second loop of start_algorithm_target_pph.
AssignAisle(slots, asg, target_pph) ==
    LET fresh == StowSlotNew(asg.cluster_char, <<RcClone(asg.aisle)>>)
    IN  IF IsSome(asg.previous)
        THEN LET k == GetStowSlotFromAisle(slots, Unwrap(asg.previous))
             IN  IF k # 0 /\ RatLe(slots[k].pph, RatOfInt(target_pph))
                 THEN [slots EXCEPT ![k] = AddAisle(@, RcClone(asg.aisle))]
                 ELSE Append(slots, fresh)
        ELSE Append(slots, fresh)

RECURSIVE AssignAll(_, _, _)
AssignAll(slots, asgs, target_pph) ==
    IF asgs = <<>> THEN slots
    ELSE AssignAll(AssignAisle(slots, Head(asgs), target_pph), Tail(asgs),
                   target_pph)

TargetPphPanics(f) ==
    \E i \in 1..Len(f.clusters) : \E j \in 1..Len(f.clusters[i].aisles) :
        GetPreviousAislePanics(f.clusters[i], f.clusters[i].aisles[j].aisle_num)

\* get_lowest_pph: the windows of `range` consecutive pairs of one cluster.
WindowAisles(pairs, i, range) ==
    IF range = 0 THEN <<>>
    ELSE LET RECURSIVE Cat(_)
             Cat(k) == IF k >= range THEN <<>>
                       ELSE GetAislesFromPair(pairs[i + k]) \o Cat(k + 1)
         IN  Cat(0)

WindowLocked(pairs, i, range) ==
    \E k \in 0..(range - 1) :
        IsSome(pairs[i + k].aisle1) /\ Unwrap(pairs[i + k].aisle1).locked

RECURSIVE InsertByPph(_, _)
InsertByPph(sorted, e) ==
    IF sorted = <<>> THEN <<e>>
    ELSE IF RatLt(e.pph, Head(sorted).pph) THEN <<e>> \o sorted
    ELSE <<Head(sorted)>> \o InsertByPph(Tail(sorted), e)

RECURSIVE SortByPph(_)
SortByPph(s) ==
    IF s = <<>> THEN <<>>
    ELSE InsertByPph(SortByPph(SubSeq(s, 1, Len(s) - 1)), s[Len(s)])

RECURSIVE LowestFrom(_, _, _)
LowestFrom(cluster, i, range) ==
    LET pairs == cluster.aisle_pairs
    IN  IF i > Len(pairs) \/ (i - 1) + range > Len(pairs) THEN <<>>
        ELSE IF WindowLocked(pairs, i, range)
             THEN LowestFrom(cluster, i + 1, range)
             ELSE LET as == WindowAisles(pairs, i, range)
                      rc == [k \in 1..Len(as) |-> RcClone(as[k])]
                  IN  <<[slot |-> StowSlotNew(cluster.cluster, rc),
                         pph |-> DivHours(SlotTotalPackages(as))]>>
                      \o LowestFrom(cluster, i + 1, range)

GetLowestPph(cluster, range) == SortByPph(LowestFrom(cluster, 1, range))

RECURSIVE AllLowest(_, _)
AllLowest(clusters, i) ==
    IF i > Len(clusters) THEN <<>>
    ELSE GetLowestPph(clusters[i], AislePairRange) \o AllLowest(clusters, i + 1)

\* fill_stow_slots_around_locked, the loop over one cluster's pairs.
RECURSIVE FillPairs(_, _, _, _, _, _)
FillPairs(c, pairs, count, current_slot, out, max_aisle_count) ==
    IF pairs = <<>> THEN Append(out, current_slot)
    ELSE LET aisles == AislePairGetAisles(Head(pairs))
         IN  IF count >= max_aisle_count \/ AnyLocked(aisles)
             THEN FillPairs(c, Tail(pairs), 0, StowSlotNew(c, <<>>),
                            Append(out, current_slot), max_aisle_count)
             ELSE FillPairs(c, Tail(pairs), count + 1,
                            AddAisles(current_slot, aisles), out, max_aisle_count)

RECURSIVE FillClusters(_, _, _)
FillClusters(clusters, i, max_aisle_count) ==
    IF i > Len(clusters) THEN <<>>
    ELSE FillPairs(clusters[i].cluster, clusters[i].aisle_pairs, 0,
                   StowSlotNew(clusters[i].cluster, <<>>), <<>>, max_aisle_count)
         \o FillClusters(clusters, i + 1, max_aisle_count)

FillStowSlotsAroundLocked(f, max_aisle_count) ==
    FillClusters(f.clusters, 1, max_aisle_count)

---------------------------------------------------------------------------
(* Results of a call *)

Unit == [kind |-> "Unit", value |-> ""]
Ok == [kind |-> "Ok", value |-> ""]
Err(msg) == [kind |-> "Err", value |-> msg]
Panic(msg) == [kind |-> "Panic", value |-> msg]
Found(o) == IF IsSome(o) THEN [kind |-> "Some", value |-> Unwrap(o)]
            ELSE [kind |-> "None", value |-> ""]

ErrLockedAisles == "Stow slot contains locked aisles"
ErrNotAllowed == "Stow slot is not allowed to be created"
ErrUnreachable == "unreachable"
ErrAlreadyLocked == "Stow slot is already locked"
UnwrapNone == "called Option::unwrap() on a None value"
SubOverflow == "attempt to subtract with overflow"

---------------------------------------------------------------------------
(* StowSlotBuilder::add_stow_slot *)

\* The match on the two pairs before the slot's first pair: the reason of
\* the rejection, None when the match lets the slot through.
LeftBoundary(aisle_pairs, i1) ==
    LET two_before == PairsGet(aisle_pairs, i1 - 2)
        one_before == PairsGet(aisle_pairs, i1 - 1)
    IN  IF IsSome(two_before) /\ IsSome(one_before)
        THEN LET pair2 == AislePairGetAisles(Unwrap(two_before))
                 pair1 == AislePairGetAisles(Unwrap(one_before))
             IN  IF pair2 = <<>> \/ (AnyLocked(pair2) /\ AnyUnlocked(pair1))
                 THEN Some(ErrNotAllowed) ELSE None
        ELSE IF ~IsSome(two_before) /\ IsSome(one_before)
        THEN LET pair1 == AislePairGetAisles(Unwrap(one_before))
             IN  IF pair1 = <<>> \/ AnyUnlocked(pair1)
                 THEN Some(ErrNotAllowed) ELSE None
        ELSE IF IsSome(two_before) /\ ~IsSome(one_before)
        THEN Some(ErrUnreachable)
        ELSE None

\* The match on the two pairs after the slot's last pair.
RightBoundary(aisle_pairs, i2) ==
    LET one_after == PairsGet(aisle_pairs, i2 + 1)
        two_after == PairsGet(aisle_pairs, i2 + 2)
    IN  IF IsSome(one_after) /\ IsSome(two_after)
        THEN LET pair1 == AislePairGetAisles(Unwrap(one_after))
                 pair2 == AislePairGetAisles(Unwrap(two_after))
             IN  IF pair1 = <<>> \/ (AnyLocked(pair1) /\ AnyUnlocked(pair2))
                 THEN Some(ErrNotAllowed) ELSE None
        ELSE IF ~IsSome(one_after) /\ IsSome(two_after)
        THEN LET pair2 == AislePairGetAisles(Unwrap(two_after))
             IN  IF pair2 = <<>> \/ AnyUnlocked(pair2)
                 THEN Some(ErrNotAllowed) ELSE None
        ELSE IF IsSome(one_after) /\ ~IsSome(two_after)
        THEN Some(ErrUnreachable)
        ELSE None

\* Everything after the locked-aisle check: [ret, stow_slots].
AddStowSlotChecked(slots, f, stow_slot, is_locked) ==
    LET cl == FloorGetCluster(f, stow_slot.cluster)
        sorted == SortByAisleNum(stow_slot.aisles)
        out(r) == [ret |-> r, stow_slots |-> slots]
    IN  IF ~IsSome(cl) THEN out(Panic(UnwrapNone))
        ELSE IF sorted = <<>> THEN out(Panic(UnwrapNone))
        ELSE
        LET cluster == Unwrap(cl)
            p1 == GetPairFromAisle(cluster, sorted[1].aisle_num)
            p2 == GetPairFromAisle(cluster, sorted[Len(sorted)].aisle_num)
        IN  IF ~IsSome(p1) \/ ~IsSome(p2) THEN out(Panic(UnwrapNone))
            ELSE
            LET i1 == Unwrap(p1)
                i2 == Unwrap(p2)
                aisle_pairs == SortPairs(cluster.aisle_pairs)
                left == LeftBoundary(aisle_pairs, i1)
                right == RightBoundary(aisle_pairs, i2)
                slot == [stow_slot EXCEPT !.aisles = sorted]
            IN  IF overflow_checks /\ i1 < 2 THEN out(Panic(SubOverflow))
                ELSE IF IsSome(left) THEN out(Err(Unwrap(left)))
                ELSE IF IsSome(right) THEN out(Err(Unwrap(right)))
                ELSE IF is_locked /\ slot.locked THEN out(Err(ErrAlreadyLocked))
                ELSE [ret |-> Ok,
                      stow_slots |-> Append(slots,
                          IF is_locked THEN StowSlotToggleLock(slot) ELSE slot)]

\* add_stow_slot with a slip: the locked-aisle check left out.
AddStowSlotUnguarded(slots, f, stow_slot, is_locked) ==
    AddStowSlotChecked(slots, f, stow_slot, is_locked)

AddStowSlotOutcome(slots, f, stow_slot, is_locked) ==
    IF AnyLocked(stow_slot.aisles)
    THEN [ret |-> Err(ErrLockedAisles), stow_slots |-> slots]
    ELSE AddStowSlotChecked(slots, f, stow_slot, is_locked)

---------------------------------------------------------------------------
(* SortZoneVisitor::visit_str: a string is a sequence of one-character
   strings *)

UpperCase == {"A", "B", "C", "D", "E", "F", "G", "H", "I", "J", "K", "L", "M",
              "N", "O", "P", "Q", "R", "S", "T", "U", "V", "W", "X", "Y", "Z"}
LowerCase == {"a", "b", "c", "d", "e", "f", "g", "h", "i", "j", "k", "l", "m",
              "n", "o", "p", "q", "r", "s", "t", "u", "v", "w", "x", "y", "z"}
Digits == {"0", "1", "2", "3", "4", "5", "6", "7", "8", "9"}

\* char::to_digit(10)
ToDigit(c) ==
    IF c \notin Digits THEN None
    ELSE Some(CASE c = "0" -> 0 [] c = "1" -> 1 [] c = "2" -> 2 [] c = "3" -> 3
                [] c = "4" -> 4 [] c = "5" -> 5 [] c = "6" -> 6 [] c = "7" -> 7
                [] c = "8" -> 8 [] c = "9" -> 9)

\* str::split(sep).collect(): the pieces between the separators, one piece
\* more than there are separators.
RECURSIVE SplitOn(_, _)
SplitOn(s, sep) ==
    LET at == {i \in 1..Len(s) : s[i] = sep}
    IN  IF at = {} THEN <<s>>
        ELSE LET i == CHOOSE k \in at : \A m \in at : k <= m
             IN  <<SubSeq(s, 1, i - 1)>> \o SplitOn(SubSeq(s, i + 1, Len(s)), sep)

\* The digits of s read in base 10 onto acc; None at a character that is
\* not a digit or when the value leaves u32.
RECURSIVE DigitsFrom(_, _, _)
DigitsFrom(s, i, acc) ==
    IF i > Len(s) THEN Some(acc)
    ELSE IF ToDigit(s[i]) = None THEN None
    ELSE LET d == Unwrap(ToDigit(s[i]))
         IN  IF acc > U32MaxDiv10 \/ (acc = U32MaxDiv10 /\ d > U32MaxMod10)
             THEN None
             ELSE DigitsFrom(s, i + 1, acc * 10 + d)

\* str::parse::<u32>(): an optional '+', then at least one digit.
ParseU32(s) ==
    LET body == IF Len(s) > 0 /\ s[1] = "+" THEN SubSeq(s, 2, Len(s)) ELSE s
    IN  IF body = <<>> THEN None ELSE DigitsFrom(body, 1, 0)

VisitStr(value) ==
    LET parts == SplitOn(value, "-")
    IN  IF Len(parts) # 2 THEN Err("expected format 'A-1.1A'")
        ELSE IF parts[1] = <<>> THEN Err("missing cluster")
        ELSE
        LET cluster == parts[1][1]
            aisle_level_column == SplitOn(parts[2], ".")
        IN  IF Len(aisle_level_column) # 2 THEN Err("expected format '1.1A'")
            ELSE
            LET aisle == ParseU32(aisle_level_column[1])
                level_column == aisle_level_column[2]
            IN  IF aisle = None THEN Err("invalid digit found in string")
                ELSE IF Len(level_column) # 2 THEN Err("expected format '1A'")
                ELSE IF ToDigit(level_column[1]) = None THEN Err("invalid level")
                ELSE [kind |-> "Ok",
                      value |-> [cluster |-> cluster,
                                 aisle |-> Unwrap(aisle),
                                 level |-> Unwrap(ToDigit(level_column[1])),
                                 column |-> level_column[2]]]

---------------------------------------------------------------------------
(* Inputs *)

Bag(c, num, pk) == [cluster |-> c, aisle |-> num, planned_package_count |-> pk]

\* A file listing aisles lo, lo + step, ... up to hi of one cluster, one
\* record each.
AscFile(c, lo, hi, step, pk) ==
    [k \in 1..(IF hi < lo THEN 0 ELSE ((hi - lo) \div step) + 1) |->
        Bag(c, lo + (k - 1) * step, pk)]

\* The files the allocator's floors are read from, each with the hours the
\* process is configured with: cluster A with aisles 1..hi, with an aisle 0,
\* with odd or even aisles only, and two clusters of lighter aisles.
ContiguousFiles == {AscFile("A", 1, hi, 1, 100) : hi \in 0..MaxAisle}
AisleZeroFiles == {AscFile("A", 0, 2, 1, 100)}
SteppedFiles == {AscFile("A", lo, hi, 2, 100) : lo \in 1..2, hi \in {4, MaxAisle}}
TwoClusterFiles ==
    {AscFile("A", 1, hi, 1, 50) \o AscFile("B", 1, 2, 1, 100) : hi \in {3, MaxAisle}}

DenseFiles == ContiguousFiles \cup AisleZeroFiles \cup SteppedFiles \cup TwoClusterFiles

InputConfigs ==
    ((ContiguousFiles \cup AisleZeroFiles \cup SteppedFiles) \X {[n |-> 1, d |-> 1]})
    \cup (TwoClusterFiles \X HoursChoices)

ShortBags ==
    {Bag(c, num, pk) : c \in Clusters, num \in 0..MaxShortAisle, pk \in PackageCounts}

ShortFiles == UNION {[1..k -> ShortBags] : k \in 0..MaxBags}

\* The sort zone strings handed to the parser.
Chars == {"A", "b", "1", "-", ".", "+"}
Strings == UNION {[1..k -> Chars] : k \in 0..MaxStrLen}

TargetPphChoices == {100, 250}
TargetHcChoices == {-1, 2, 30}

FreshAisle(c, num, locked) ==
    RcNew([NewAisle(c, num, <<Bag(c, num, 50)>>) EXCEPT !.locked = locked])

Reverse(s) == [i \in 1..Len(s) |-> s[Len(s) + 1 - i]]

\* Aisle lists a planner may hand to StowSlot::new for cluster letter c:
\* runs of the floor's own aisles (handles shared with the floor), one of
\* them in descending order, aisles built by the planner, and a mixture.
CandidateAisles(f, c) ==
    LET cl == FloorGetCluster(f, c)
        own == IF IsSome(cl) THEN Unwrap(cl).aisles ELSE <<>>
        rc == [i \in 1..Len(own) |-> RcClone(own[i])]
        runs == {SubSeq(rc, i, j) : i \in 1..Len(rc), j \in 1..Len(rc)}
        short == {r \in runs : Len(r) >= 1 /\ Len(r) <= MaxCandAisles}
    IN  {<<>>}
        \cup short
        \cup {Reverse(r) : r \in {q \in short : Len(q) = 2 /\ q[1] = rc[1]}}
        \cup {<<FreshAisle(c, 1, l)>> : l \in BOOLEAN}
        \cup {<<FreshAisle(c, MaxAisle + 1, FALSE)>>}
        \cup {<<r[1], FreshAisle(c, r[1].aisle_num + 1, TRUE)>> :
                r \in {q \in short : Len(q) = 1 /\ q[1] = rc[1]}}

\* The slots a planner proposes: built by StowSlot::new, one of them
\* locked by StowSlot::toggle_lock before it is proposed.
Candidates(f) ==
    UNION {{StowSlotNew(c, as) : as \in CandidateAisles(f, c)} : c \in Clusters}
    \cup UNION {{StowSlotToggleLock(StowSlotNew(c, <<RcClone(Unwrap(GetAisle(cl, 1)))>>)) :
                    cl \in {k \in {f.clusters[i] : i \in 1..Len(f.clusters)} :
                              k.cluster = c /\ IsSome(GetAisle(k, 1))}} :
                c \in Clusters}

\* The floors of the call sequences, and the slots proposed in them.
SeqFiles ==
    {AscFile("A", 1, 2, 1, 100), AscFile("A", 1, 5, 1, 100),
     AscFile("A", 0, 2, 1, 100), AscFile("A", 1, 5, 2, 100),
     AscFile("A", 1, 3, 1, 50) \o AscFile("B", 1, 2, 1, 100)}

SingleAisleSlots(f) ==
    UNION {{StowSlotNew(f.clusters[i].cluster, <<RcClone(f.clusters[i].aisles[j])>>) :
               j \in 1..Len(f.clusters[i].aisles)} : i \in 1..Len(f.clusters)}

One == [n |-> 1, d |-> 1]

NumLocked(f) ==
    SumSeq([i \in 1..Len(f.clusters) |->
        Cardinality({j \in 1..Len(f.clusters[i].aisles) :
                        f.clusters[i].aisles[j].locked})])

---------------------------------------------------------------------------
(* Actions *)

\* Floor::from_csv followed by create_stow_slot_builder.
FloorFromCsv ==
    /\ pc = "start"
    /\ floor' = FloorNew(bags)
    /\ pc' = "idle"
    /\ call' = [op |-> "floor_new"]
    /\ ret' = Unit
    /\ UNCHANGED <<bags, stow_slots, lowest_pph, ops, TOTAL_HOURS, overflow_checks>>

\* The csv reader deserializes the "Sort Zone" field of a record.
CallVisitStr(value) ==
    /\ pc = "start"
    /\ pc' = "idle"
    /\ call' = [op |-> "visit_str", value |-> value]
    /\ ret' = VisitStr(value)
    /\ UNCHANGED <<bags, floor, stow_slots, lowest_pph, ops, TOTAL_HOURS,
                   overflow_checks>>

\* Floor::generate_aisle_pairs called again on a built floor.
CallGenerateAislePairs ==
    /\ pc = "idle"
    /\ ops = 0
    /\ floor' = FloorGenerateAislePairs(floor)
    /\ call' = [op |-> "generate_aisle_pairs"]
    /\ ret' = Unit
    /\ UNCHANGED <<bags, stow_slots, lowest_pph, pc, ops, TOTAL_HOURS, overflow_checks>>

CallGetTotalPackages ==
    /\ pc = "idle"
    /\ ops = 0
    /\ call' = [op |-> "get_total_packages"]
    /\ ret' = [kind |-> "Int", value |-> FloorGetTotalPackages(floor)]
    /\ UNCHANGED <<bags, floor, stow_slots, lowest_pph, pc, ops, TOTAL_HOURS,
                   overflow_checks>>

\* The planner locks or unlocks an aisle of the floor before any slot holds
\* a handle to it (Aisle::toggle_lock needs the only handle), and the pairs
\* are generated again from the cluster's aisles.
ToggleLock(ci, ai) ==
    /\ pc = "idle"
    /\ ops = 0
    /\ stow_slots = <<>>
    /\ ci \in 1..Len(floor.clusters)
    /\ ai \in 1..Len(floor.clusters[ci].aisles)
    /\ LET toggled == [floor EXCEPT !.clusters[ci].aisles[ai] = AisleToggleLock(@)]
       IN  /\ NumLocked(toggled) <= MaxLocked
           /\ floor' = FloorGenerateAislePairs(toggled)
    /\ call' = [op |-> "toggle_lock", cluster |-> floor.clusters[ci].cluster,
                aisle |-> floor.clusters[ci].aisles[ai].aisle_num]
    /\ ret' = Unit
    /\ UNCHANGED <<bags, stow_slots, lowest_pph, pc, ops, TOTAL_HOURS, overflow_checks>>

\* Cluster::get_next_aisle on a cluster of the floor.
CallGetNextAisle(ci, num) ==
    /\ pc = "idle"
    /\ ops = 0
    /\ ci \in 1..Len(floor.clusters)
    /\ call' = [op |-> "get_next_aisle", cluster |-> floor.clusters[ci].cluster,
                aisle |-> num]
    /\ ret' = Found(GetNextAisle(floor.clusters[ci], num))
    /\ UNCHANGED <<bags, floor, stow_slots, lowest_pph, pc, ops, TOTAL_HOURS,
                   overflow_checks>>

\* Cluster::get_previous_aisle on a cluster of the floor.
CallGetPreviousAisle(ci, num) ==
    /\ pc = "idle"
    /\ ops = 0
    /\ ci \in 1..Len(floor.clusters)
    /\ call' = [op |-> "get_previous_aisle", cluster |-> floor.clusters[ci].cluster,
                aisle |-> num]
    /\ IF GetPreviousAislePanics(floor.clusters[ci], num)
       THEN ret' = Panic(SubOverflow) /\ pc' = "panicked"
       ELSE ret' = Found(GetPreviousAisle(floor.clusters[ci], num)) /\ pc' = pc
    /\ UNCHANGED <<bags, floor, stow_slots, lowest_pph, ops, TOTAL_HOURS,
                   overflow_checks>>

StartAlgorithmTargetPph(target_pph) ==
    /\ pc = "idle"
    /\ ops < MaxOps
    /\ ops' = ops + 1
    /\ call' = [op |-> "start_algorithm_target_pph", target_pph |-> target_pph,
                before |-> stow_slots]
    /\ IF TargetPphPanics(floor)
       THEN /\ ret' = Panic(SubOverflow)
            /\ pc' = "panicked"
            /\ UNCHANGED stow_slots
       ELSE /\ stow_slots' = AssignAll(stow_slots, AisleAssignments(floor.clusters, 1),
                                       target_pph)
            /\ ret' = Unit
            /\ pc' = pc
    /\ UNCHANGED <<bags, floor, lowest_pph, TOTAL_HOURS, overflow_checks>>

\* start_algorithm_target_hc up to its while loop.
StartAlgorithmTargetHc(target_hc) ==
    /\ pc = "idle"
    /\ ops < MaxOps
    /\ ops' = ops + 1
    /\ call' = [op |-> "start_algorithm_target_hc", target_hc |-> target_hc]
    /\ LET f == IF \A i \in 1..Len(floor.clusters) :
                      floor.clusters[i].aisle_pairs = <<>>
                THEN FloorGenerateAislePairs(floor) ELSE floor
       IN  /\ floor' = f
           /\ lowest_pph' = SortByPph(AllLowest(f.clusters, 1))
           /\ stow_slots' = FillStowSlotsAroundLocked(f, FillMaxAisleCount)
    /\ ret' = [kind |-> "Running", value |-> ""]
    /\ pc' = "hc_while"
    /\ UNCHANGED <<bags, TOTAL_HOURS, overflow_checks>>

\* `target_hc as usize`: a negative target becomes a number no Vec length
\* reaches.
LenAtLeastTarget(len, target_hc) == target_hc >= 0 /\ len >= target_hc

\* The test of `while self.stow_slots.len() >= algorithm.target_hc as usize`.
HcWhile ==
    /\ pc = "hc_while"
    /\ IF LenAtLeastTarget(Len(stow_slots), call.target_hc)
       THEN pc' = "hc_body" /\ ret' = ret
       ELSE pc' = "idle" /\ ret' = Unit
    /\ UNCHANGED <<bags, floor, stow_slots, lowest_pph, call, ops, TOTAL_HOURS,
                   overflow_checks>>

\* The body of the loop: `diff` and the empty `if`; nothing is assigned.
HcBody ==
    /\ pc = "hc_body"
    /\ pc' = "hc_while"
    /\ UNCHANGED <<bags, floor, stow_slots, lowest_pph, call, ret, ops, TOTAL_HOURS,
                   overflow_checks>>

AddStowSlot(stow_slot, is_locked) ==
    /\ pc = "idle"
    /\ ops < MaxOps
    /\ ops' = ops + 1
    /\ call' = [op |-> "add_stow_slot", stow_slot |-> stow_slot,
                is_locked |-> is_locked, before |-> stow_slots]
    /\ LET o == AddStowSlotOutcome(stow_slots, floor, stow_slot, is_locked)
       IN  /\ ret' = o.ret
           /\ stow_slots' = o.stow_slots
           /\ pc' = IF o.ret.kind = "Panic" THEN "panicked" ELSE pc
    /\ UNCHANGED <<bags, floor, lowest_pph, TOTAL_HOURS, overflow_checks>>

---------------------------------------------------------------------------
(* Specifications *)

InitCommon ==
    /\ floor = EmptyFloor
    /\ stow_slots = <<>>
    /\ lowest_pph = <<>>
    /\ pc = "start"
    /\ call = [op |-> "none"]
    /\ ret = Unit
    /\ ops = 0

\* One allocator call on a freshly built floor the planner may have locked
\* aisles of: floors read from files of one record per aisle. What
\* add_stow_slot and the two algorithms return does not depend on earlier
\* calls, except through the result set they push onto.
Init ==
    /\ \E cfg \in InputConfigs : bags = cfg[1] /\ TOTAL_HOURS = cfg[2]
    /\ overflow_checks \in BOOLEAN
    /\ InitCommon

Next ==
    \/ FloorFromCsv
    \/ \E ci \in 1..2, ai \in 1..(MaxAisle + 1) : ToggleLock(ci, ai)
    \/ \E ci \in 1..2, num \in 0..(MaxAisle + 1) : CallGetNextAisle(ci, num)
    \/ \E ci \in 1..2, num \in 0..(MaxAisle + 1) : CallGetPreviousAisle(ci, num)
    \/ \E t \in TargetPphChoices : ops = 0 /\ StartAlgorithmTargetPph(t)
    \/ \E t \in TargetHcChoices : ops = 0 /\ StartAlgorithmTargetHc(t)
    \/ HcWhile
    \/ HcBody
    \/ \E s \in Candidates(floor), l \in BOOLEAN : ops = 0 /\ AddStowSlot(s, l)

Spec == Init /\ [][Next]_vars

\* The loop of start_algorithm_target_hc runs on while it can: the thread
\* is never descheduled for good.
FairSpec == Spec /\ WF_vars(HcWhile) /\ WF_vars(HcBody)

\* Sequences of up to MaxOps allocator calls on one builder, on a few
\* floors, the proposed slots being single aisles of the floor.
SeqInit ==
    /\ bags \in SeqFiles
    /\ TOTAL_HOURS = One
    /\ overflow_checks \in BOOLEAN
    /\ InitCommon

SeqNext ==
    \/ FloorFromCsv
    \/ \E t \in TargetPphChoices : StartAlgorithmTargetPph(t)
    \/ \E t \in TargetHcChoices : StartAlgorithmTargetHc(t)
    \/ HcWhile
    \/ HcBody
    \/ \E s \in SingleAisleSlots(floor), l \in BOOLEAN : AddStowSlot(s, l)

SeqSpec == SeqInit /\ [][SeqNext]_vars

\* Floor construction on arbitrary short files.
BuildInit ==
    /\ bags \in ShortFiles \cup DenseFiles
    /\ TOTAL_HOURS = DefaultHours
    /\ overflow_checks = TRUE
    /\ InitCommon

BuildNext ==
    \/ FloorFromCsv
    \/ CallGenerateAislePairs
    \/ CallGetTotalPackages

BuildSpec == BuildInit /\ [][BuildNext]_vars

\* Reading one sort zone string.
ParseInit ==
    /\ bags = <<>>
    /\ TOTAL_HOURS = DefaultHours
    /\ overflow_checks = TRUE
    /\ InitCommon

ParseNext == pc = "start" /\ \E value \in Strings : CallVisitStr(value)

ParseSpec == ParseInit /\ [][ParseNext]_vars

---------------------------------------------------------------------------
(* Properties *)

AisleNums(aisles) == [i \in 1..Len(aisles) |-> aisles[i].aisle_num]
NumSet(cluster) == {cluster.aisles[i].aisle_num : i \in 1..Len(cluster.aisles)}
FloorClusters == {floor.clusters[i] : i \in 1..Len(floor.clusters)}
FloorAisles == UNION {{c.aisles[i] : i \in 1..Len(c.aisles)} : c \in FloorClusters}
\* C1: after a throughput-target allocation on an allocator with an empty
\* result set, on a floor whose every aisle has a rate at or below
\* target_pph, every slot's rate_per_hour is at or below target_pph; and
\* cluster A with aisles 1..4 of 100 packages each, total_hours = 1.0 and
\* target_pph = 250 gives exactly the two slots {1,2} and {3,4}.
C1_SlotsWithinTarget ==
    (/\ call.op = "start_algorithm_target_pph"
     /\ call.before = <<>>
     /\ ret.kind = "Unit"
     /\ \A a \in FloorAisles :
            RatLe(DivHours(AisleTotalPackages(a)), RatOfInt(call.target_pph)))
    => /\ \A i \in 1..Len(stow_slots) :
            RatLe(stow_slots[i].pph, RatOfInt(call.target_pph))
       /\ (bags = AscFile("A", 1, 4, 1, 100) /\ TOTAL_HOURS = One
           /\ call.target_pph = 250)
          => [i \in 1..Len(stow_slots) |-> AisleNums(stow_slots[i].aisles)]
             = <<(<<1, 2>>), (<<3, 4>>)>>

\* C2: in every state reached by allocate and propose_slot calls, no aisle
\* (cluster and aisle_num) is in more than one slot of the result set.
C2_NoAisleInTwoSlots ==
    \A i \in 1..Len(stow_slots) : \A j \in 1..Len(stow_slots) :
        i < j => \A x \in 1..Len(stow_slots[i].aisles) :
                    ~SlotHasAisle(stow_slots[j], stow_slots[i].aisles[x])

\* C3: allocate terminates: a headcount-target allocation that has reached
\* its loop returns to the caller, also when the filled slot count is at
\* least target_hc.
C3_AllocateTerminates == [](pc \in {"hc_while", "hc_body"} => <>(pc = "idle"))

\* C4: the floor built from a sequence of records, and from every
\* permutation of it, has total_packages() equal to the sum of the records'
\* package counts.
C4_TotalPackages ==
    call.op = "get_total_packages"
    => /\ ret.value = SumPackages(bags)
       /\ Len(bags) <= MaxBags
          => \A p \in Permutations(1..Len(bags)) :
                FloorGetTotalPackages(FloorNew([i \in 1..Len(bags) |-> bags[p[i]]]))
                = SumPackages(bags)

C4_Witness ==
    /\ call.op = "get_total_packages"
    /\ Len(bags) = 3
    /\ bags[1].cluster = bags[3].cluster /\ bags[1].aisle = bags[3].aisle
    /\ bags[2].cluster # bags[1].cluster
    /\ bags[1].planned_package_count # bags[3].planned_package_count
    /\ ret.value = 250

\* The pair sequence as numbers: <<n, m>> for a pair (n, m), <<n>> for a
\* pair (n, none).
PairNums(cluster) ==
    [i \in 1..Len(cluster.aisle_pairs) |->
        AisleNums(GetAislesFromPair(cluster.aisle_pairs[i]))]

\* C5: after pair generation a cluster's pairs are, in ascending order, one
\* pair per odd aisle n: (n, n+1) when aisle n+1 is in the cluster, (n, none)
\* otherwise, none starting from an even aisle; aisles {1,..,5} give
\* (1,2),(3,4),(5,none) and aisles {2,4} give no pairs.
C5_PairGeneration ==
    pc = "idle" =>
    \A c \in FloorClusters :
        LET ps == c.aisle_pairs
            odds == {n \in NumSet(c) : n % 2 = 1}
        IN  /\ Len(ps) = Cardinality(odds)
            /\ \A i \in 1..Len(ps) :
                /\ IsSome(ps[i].aisle1)
                /\ ps[i].aisle1 = GetAisle(c, Unwrap(ps[i].aisle1).aisle_num)
                /\ Unwrap(ps[i].aisle1).aisle_num \in odds
                /\ ps[i].aisle2 = GetAisle(c, Unwrap(ps[i].aisle1).aisle_num + 1)
                /\ i < Len(ps) => Unwrap(ps[i].aisle1).aisle_num
                                  < Unwrap(ps[i + 1].aisle1).aisle_num
            /\ NumSet(c) = 1..5 => PairNums(c) = <<(<<1, 2>>), (<<3, 4>>), (<<5>>)>>
            /\ NumSet(c) = {2, 4} => ps = <<>>

C5_Witness ==
    /\ pc = "idle"
    /\ \E c \in FloorClusters :
          NumSet(c) = 1..5 /\ PairNums(c) = <<(<<1, 2>>), (<<3, 4>>), (<<5>>)>>

PairsHolding(c, num) ==
    {i \in 1..Len(c.aisle_pairs) : PairHasAisle(c.aisle_pairs[i], num)}

\* C6 as stated: after pair generation on a built floor every aisle of every
\* cluster belongs to exactly one pair of that cluster.
C6_EveryAisleInOnePair ==
    pc = "idle" =>
    \A c \in FloorClusters : \A n \in NumSet(c) :
        IsSome(GetPairFromAisle(c, n)) /\ Cardinality(PairsHolding(c, n)) = 1

\* C6 amended: after pair generation on a built floor every aisle belongs to
\* at most one pair, and to exactly one unless it is an even-numbered aisle
\* whose preceding odd-numbered aisle is not in the cluster; such an aisle
\* belongs to no pair.
C6_AisleInAtMostOnePair ==
    pc = "idle" =>
    \A c \in FloorClusters : \A n \in NumSet(c) :
        /\ Cardinality(PairsHolding(c, n)) <= 1
        /\ IsSome(GetPairFromAisle(c, n)) <=> (n % 2 = 1 \/ (n - 1) \in NumSet(c))
        /\ IsSome(GetPairFromAisle(c, n))
           => PairsHolding(c, n) = {Unwrap(GetPairFromAisle(c, n)) + 1}

C6_Witness ==
    /\ pc = "idle"
    /\ \E c \in FloorClusters :
          /\ NumSet(c) = {0, 1, 2}
          /\ GetPairFromAisle(c, 0) = None
          /\ GetPairFromAisle(c, 1) = Some(0)
          /\ GetPairFromAisle(c, 2) = Some(0)

\* C7: for every cluster and aisle number n, 0 included, the previous-aisle
\* lookup returns the cluster's aisle numbered n-1 and the next-aisle lookup
\* the one numbered n+1 when it exists and "not found" otherwise, and
\* neither ever faults.
C7_Neighbor ==
    call.op \in {"get_previous_aisle", "get_next_aisle"} =>
    LET want == IF call.op = "get_next_aisle" THEN call.aisle + 1 ELSE call.aisle - 1
        there == {a \in FloorAisles : a.cluster = call.cluster /\ a.aisle_num = want}
    IN  /\ ret.kind # "Panic"
        /\ there # {} => ret.kind = "Some" /\ ret.value \in there
        /\ there = {} => ret.kind = "None"

\* Every slot the model holds: the result set, the headcount candidates and
\* the slot proposed last.
AllSlots ==
    {stow_slots[i] : i \in 1..Len(stow_slots)}
    \cup {lowest_pph[i].slot : i \in 1..Len(lowest_pph)}
    \cup (IF call.op = "add_stow_slot" THEN {call.stow_slot} ELSE {})

\* C8: every slot, after creation and after every append, has rate_per_hour
\* equal to the sum of its aisles' total_packages divided by total_hours, and
\* is_floater true exactly when rate_per_hour <= 150.0, 150.0 included.
C8_RateAndFloater ==
    \A s \in AllSlots :
        /\ s.pph.d > 0
        /\ s.pph.n * TOTAL_HOURS.n = SlotTotalPackages(s.aisles) * TOTAL_HOURS.d * s.pph.d
        /\ s.is_floater <=> (s.pph.n <= FloaterPph * s.pph.d)

C8_Witness ==
    \E i \in 1..Len(stow_slots) :
        /\ Len(stow_slots[i].aisles) = 3
        /\ stow_slots[i].pph.n = FloaterPph * stow_slots[i].pph.d
        /\ stow_slots[i].is_floater
        /\ \E j \in 1..Len(stow_slots) :
              Len(stow_slots[j].aisles) >= 2 /\ ~stow_slots[j].is_floater

\* C9: propose_slot rejects every candidate holding a locked aisle, whatever
\* the aisle's position, the cluster and lock_on_insert, before any pair
\* lookup or boundary check: the reason is the locked aisle, nothing faults
\* and the result set is left as it was.
C9_LockedRejected ==
    (call.op = "add_stow_slot" /\ AnyLocked(call.stow_slot.aisles))
    => /\ ret.kind = "Err"
       /\ ret.value = ErrLockedAisles
       /\ stow_slots = call.before
       /\ pc = "idle"

\* A candidate of a cluster the floor does not have, its one aisle locked, and
\* lock_on_insert set: only the locked-aisle check keeps the lookup from
\* faulting.
C9_Witness ==
    /\ call.op = "add_stow_slot"
    /\ AnyLocked(call.stow_slot.aisles)
    /\ call.is_locked
    /\ FloorGetCluster(floor, call.stow_slot.cluster) = None
    /\ ret.kind = "Err" /\ ret.value = ErrLockedAisles

\* C10: propose_slot ends with success or Rejected(reason) for every
\* candidate and never faults.
C10_NeverFaults ==
    call.op = "add_stow_slot" => ret.kind \in {"Ok", "Err"}

\* The grammar of a sort zone: one uppercase cluster letter, '-', an unsigned
\* integer aisle, '.', one digit and one letter.
SortZoneGrammar(s) ==
    /\ Len(s) >= 6
    /\ s[1] \in UpperCase
    /\ s[2] = "-"
    /\ \A i \in 3..(Len(s) - 3) : s[i] \in Digits
    /\ s[Len(s) - 2] = "."
    /\ s[Len(s) - 1] \in Digits
    /\ s[Len(s)] \in UpperCase \cup LowerCase

\* C11: parse returns a FormatError for every string that is not exactly
\* one uppercase cluster letter, '-', an unsigned integer aisle, '.', one
\* digit and one letter: no multi-character cluster segment is accepted by
\* its first character, nor a column that is not a letter.
C11_RejectsOffGrammar ==
    (call.op = "visit_str" /\ ~SortZoneGrammar(call.value)) => ret.kind = "Err"

\* C12: for every sequence of input records the built floor has at most one
\* cluster per cluster letter, each cluster has at most one aisle per
\* aisle_num, and each cluster's aisles are in strictly ascending aisle_num
\* order.
C12_FloorUniqueSorted ==
    pc = "idle" =>
    /\ \A i \in 1..Len(floor.clusters) : \A j \in 1..Len(floor.clusters) :
            i < j => floor.clusters[i].cluster # floor.clusters[j].cluster
    /\ \A c \in FloorClusters :
            /\ \A i \in 1..Len(c.aisles) : \A j \in 1..Len(c.aisles) :
                    i # j => c.aisles[i].aisle_num # c.aisles[j].aisle_num
            /\ \A i \in 1..(Len(c.aisles) - 1) :
                    c.aisles[i].aisle_num < c.aisles[i + 1].aisle_num

\* Records out of order, an aisle named twice with a record of another
\* cluster in between.
C12_Witness ==
    /\ pc = "idle"
    /\ Len(bags) = 3
    /\ bags[1].cluster = bags[3].cluster /\ bags[1].aisle = bags[3].aisle
    /\ bags[2].cluster = bags[1].cluster /\ bags[2].aisle < bags[1].aisle
    /\ Len(floor.clusters) = 1
    /\ AisleNums(floor.clusters[1].aisles) = <<bags[2].aisle, bags[1].aisle>>
    /\ Len(floor.clusters[1].aisles[2].bag_records) = 2

\* The floor's aisles, cluster after cluster, each cluster's in ascending
\* aisle_num order.
RECURSIVE AislesInOrder(_, _)
AislesInOrder(clusters, i) ==
    IF i > Len(clusters) THEN <<>>
    ELSE clusters[i].aisles \o AislesInOrder(clusters, i + 1)

\* The slots of a list that hold the aisle numbered one below a's in a's
\* cluster.
HoldersOfPrevious(slots, a) ==
    {k \in 1..Len(slots) :
        \E x \in 1..Len(slots[k].aisles) :
            /\ slots[k].aisles[x].cluster = a.cluster
            /\ slots[k].aisles[x].aisle_num = a.aisle_num - 1}

\* The append rule as C13 words it, for one aisle and then for all.
AppendRule(slots, a, target_pph) ==
    LET holders == HoldersOfPrevious(slots, a)
        first == CHOOSE k \in holders : \A m \in holders : k <= m
        handle == RcClone(a)
    IN  IF holders # {} /\ RatLe(slots[first].pph, RatOfInt(target_pph))
        THEN [slots EXCEPT ![first] =
                 [@ EXCEPT !.aisles = Append(@, handle),
                           !.pph = DivHours(SlotTotalPackages(Append(slots[first].aisles, handle))),
                           !.is_floater =
                               RatLe(DivHours(SlotTotalPackages(Append(slots[first].aisles, handle))),
                                     RatOfInt(FloaterPph))]]
        ELSE Append(slots, [cluster |-> a.cluster, aisles |-> <<handle>>,
                            is_floater |-> RatLe(DivHours(AisleTotalPackages(a)),
                                                 RatOfInt(FloaterPph)),
                            pph |-> DivHours(AisleTotalPackages(a)),
                            locked |-> FALSE])

RECURSIVE AppendRuleAll(_, _, _)
AppendRuleAll(slots, aisles, target_pph) ==
    IF aisles = <<>> THEN slots
    ELSE AppendRuleAll(AppendRule(slots, Head(aisles), target_pph), Tail(aisles),
                       target_pph)

\* C13: a throughput-target allocation that returns has taken each aisle,
\* in ascending aisle_num order per cluster, and appended it to the first
\* slot of the result list holding its previous-numbered aisle of the same
\* cluster if and only if such a slot exists and its rate_per_hour before
\* the append is <= target_pph; in every other case it has pushed a new
\* slot holding only that aisle at the end of the list.
C13_AppendRule ==
    (call.op = "start_algorithm_target_pph" /\ ret.kind = "Unit")
    => stow_slots = AppendRuleAll(call.before, AislesInOrder(floor.clusters, 1),
                                  call.target_pph)

\* An allocation on a builder that already holds slots: an aisle joined a
\* slot that was exactly at the target, and an aisle whose previous aisle
\* was held by an earlier slot opened a new slot of its own.
C13_Witness ==
    /\ call.op = "start_algorithm_target_pph" /\ ret.kind = "Unit"
    /\ call.before # <<>>
    /\ Len(stow_slots) > Len(call.before) + 1
    /\ \E k \in 1..Len(stow_slots) :
          /\ Len(stow_slots[k].aisles) >= 2
          /\ DivHours(SlotTotalPackages(SubSeq(stow_slots[k].aisles, 1,
                                               Len(stow_slots[k].aisles) - 1)))
             = RatOfInt(call.target_pph)
    /\ \E k \in (Len(call.before) + 1)..Len(stow_slots) :
          /\ Len(stow_slots[k].aisles) = 1
          /\ HoldersOfPrevious(call.before, stow_slots[k].aisles[1]) # {}

\* C14: after a throughput-target allocation on an allocator with an empty
\* result set, every slot holds aisles of a single cluster with consecutive
\* aisle_nums in ascending order, and the slots of one cluster appear in the
\* result list in ascending order of their first aisle_num.
C14_SlotsContiguousOrdered ==
    (call.op = "start_algorithm_target_pph" /\ call.before = <<>>)
    => /\ \A k \in 1..Len(stow_slots) :
            LET sl == stow_slots[k]
            IN  /\ sl.aisles # <<>>
                /\ \A x \in 1..Len(sl.aisles) : sl.aisles[x].cluster = sl.cluster
                /\ \A x \in 1..(Len(sl.aisles) - 1) :
                        sl.aisles[x].aisle_num + 1 = sl.aisles[x + 1].aisle_num
       /\ \A k \in 1..Len(stow_slots) : \A m \in 1..Len(stow_slots) :
            (k < m /\ stow_slots[k].cluster = stow_slots[m].cluster)
            => stow_slots[k].aisles[1].aisle_num < stow_slots[m].aisles[1].aisle_num

\* Two slots of several aisles each in one cluster, and a slot of another
\* cluster after them.
C14_Witness ==
    /\ call.op = "start_algorithm_target_pph" /\ call.before = <<>>
    /\ ret.kind = "Unit"
    /\ \E k \in 1..Len(stow_slots) : \E m \in 1..Len(stow_slots) :
          \E o \in 1..Len(stow_slots) :
          /\ k < m /\ m < o
          /\ stow_slots[k].cluster = stow_slots[m].cluster
          /\ stow_slots[o].cluster # stow_slots[k].cluster
          /\ Len(stow_slots[k].aisles) >= 2
          /\ Len(stow_slots[m].aisles) >= 2
          /\ Len(stow_slots[o].aisles) >= 2

\* The pairs of the slot's cluster (TLA+ indices) that have an aisle in the
\* slot, and the pairs of a cluster that have a locked aisle, first or
\* second.
PairsOfSlot(sl) ==
    LET c == FloorGetCluster(floor, sl.cluster)
    IN  IF c = None THEN {}
        ELSE {p \in 1..Len(Unwrap(c).aisle_pairs) :
                \E x \in 1..Len(sl.aisles) :
                    PairHasAisle(Unwrap(c).aisle_pairs[p], sl.aisles[x].aisle_num)}

LockedPairs(c) ==
    {p \in 1..Len(c.aisle_pairs) : AnyLocked(GetAislesFromPair(c.aisle_pairs[p]))}

\* C15: after the headcount-mode fill step no slot contains an aisle of a
\* pair in which any aisle (first or second) is locked, no slot contains
\* pairs from both sides of such a locked pair, and no slot holds more than
\* the maximum number of pairs.
C15_FillAroundLocked ==
    call.op = "start_algorithm_target_hc" =>
    \A k \in 1..Len(stow_slots) :
        LET sl == stow_slots[k]
            locked_pairs == LockedPairs(Unwrap(FloorGetCluster(floor, sl.cluster)))
        IN  /\ PairsOfSlot(sl) \cap locked_pairs = {}
            /\ \A l \in locked_pairs :
                  ~(\E p \in PairsOfSlot(sl) : \E q \in PairsOfSlot(sl) : p < l /\ l < q)
            /\ Cardinality(PairsOfSlot(sl)) <= FillMaxAisleCount

\* The slots of the result list that belong to a cluster, in list order.
SlotsOfCluster(c) == SelectSeq(stow_slots, LAMBDA sl : sl.cluster = c.cluster)

\* C16: for a cluster with n aisle pairs and no locked aisle, the
\* headcount-mode fill step with maximum m produces one slot per m
\* consecutive pairs: every aisle of every pair of the cluster, the odd and
\* the even one, appears in exactly one slot, and each slot except possibly
\* the last holds the aisles of exactly m pairs.
C16_FillWithoutLocks ==
    call.op = "start_algorithm_target_hc" =>
    \A c \in FloorClusters :
        (c.aisle_pairs # <<>> /\ ~AnyLocked(c.aisles)) =>
        LET slots == SlotsOfCluster(c)
        IN  /\ \A p \in 1..Len(c.aisle_pairs) :
                  \A a \in {Unwrap(o) : o \in {c.aisle_pairs[p].aisle1,
                                                c.aisle_pairs[p].aisle2} \ {None}} :
                      Cardinality({k \in 1..Len(slots) : SlotHasAisle(slots[k], a)}) = 1
            /\ \A k \in 1..(Len(slots) - 1) :
                  Cardinality(PairsOfSlot(slots[k])) = FillMaxAisleCount

\* The candidates of the list (indices) that start at the first aisle of
\* pair i of cluster c.
CandidatesAt(c, i) ==
    {k \in 1..Len(lowest_pph) :
        /\ lowest_pph[k].slot.cluster = c.cluster
        /\ lowest_pph[k].slot.aisles # <<>>
        /\ lowest_pph[k].slot.aisles[1].aisle_num
           = Unwrap(c.aisle_pairs[i].aisle1).aisle_num}

\* C17: in headcount-target mode the candidate list holds exactly one
\* candidate for each position of 3 consecutive pairs of a cluster in which
\* no aisle, first or second of any of the 3 pairs, is locked, holding all
\* aisles of those pairs with their aggregate rate, and no candidate for a
\* window that contains a locked aisle or does not fit before the end of the
\* cluster's pair list.
C17_CandidateWindows ==
    call.op = "start_algorithm_target_hc" =>
    /\ \A k \in 1..Len(lowest_pph) :
          \E c \in FloorClusters : \E i \in 1..Len(c.aisle_pairs) : k \in CandidatesAt(c, i)
    /\ \A c \in FloorClusters : \A i \in 1..Len(c.aisle_pairs) :
          LET fits == i + AislePairRange - 1 <= Len(c.aisle_pairs)
              window == IF fits THEN WindowAisles(c.aisle_pairs, i, AislePairRange)
                        ELSE <<>>
          IN  IF fits /\ ~AnyLocked(window)
              THEN /\ Cardinality(CandidatesAt(c, i)) = 1
                   /\ \A k \in CandidatesAt(c, i) :
                         /\ AisleNums(lowest_pph[k].slot.aisles) = AisleNums(window)
                         /\ lowest_pph[k].pph = DivHours(SlotTotalPackages(window))
                         /\ lowest_pph[k].slot.pph = lowest_pph[k].pph
              ELSE CandidatesAt(c, i) = {}

\* The boundary rule of C18 for one side: nearer and farther are the pairs
\* next to the candidate and one further on that side, None where the pair
\* list has no such pair.
RejectsSide(nearer, farther) ==
    IF IsSome(nearer) /\ IsSome(farther)
    THEN \/ GetAislesFromPair(Unwrap(farther)) = <<>>
         \/ /\ AnyLocked(GetAislesFromPair(Unwrap(farther)))
            /\ AnyUnlocked(GetAislesFromPair(Unwrap(nearer)))
    ELSE IF IsSome(nearer)
    THEN \/ GetAislesFromPair(Unwrap(nearer)) = <<>>
         \/ AnyUnlocked(GetAislesFromPair(Unwrap(nearer)))
    ELSE FALSE

\* The proposed slot is unlocked, has aisles, none of them locked, and its
\* lowest and highest aisle are in pairs of its cluster.
ProposalOnFloor ==
    /\ call.op = "add_stow_slot"
    /\ call.stow_slot.aisles # <<>>
    /\ ~AnyLocked(call.stow_slot.aisles)
    /\ ~call.stow_slot.locked
    /\ IsSome(FloorGetCluster(floor, call.stow_slot.cluster))
    /\ \A x \in 1..Len(call.stow_slot.aisles) :
          IsSome(GetPairFromAisle(Unwrap(FloorGetCluster(floor, call.stow_slot.cluster)),
                                  call.stow_slot.aisles[x].aisle_num))

\* C18: for a candidate with no locked aisle, propose_slot applies the same
\* boundary rule on both sides, the nearer and the farther neighbouring pair
\* in mirrored roles: with both pairs on a side it rejects iff the farther
\* pair is empty or (the farther pair has a locked aisle and the nearer pair
\* has an unlocked aisle); with only the nearer pair it rejects iff that pair
\* is empty or has an unlocked aisle; with no pair on a side it does not
\* reject.
C18_MirroredBoundary ==
    ProposalOnFloor =>
    LET cluster == Unwrap(FloorGetCluster(floor, call.stow_slot.cluster))
        sorted == SortByAisleNum(call.stow_slot.aisles)
        i1 == Unwrap(GetPairFromAisle(cluster, sorted[1].aisle_num))
        i2 == Unwrap(GetPairFromAisle(cluster, sorted[Len(sorted)].aisle_num))
        pairs == cluster.aisle_pairs
        at(idx) == IF idx >= 0 /\ idx < Len(pairs) THEN Some(pairs[idx + 1]) ELSE None
    IN  IF RejectsSide(at(i1 - 1), at(i1 - 2)) \/ RejectsSide(at(i2 + 1), at(i2 + 2))
        THEN ret.kind = "Err"
        ELSE ret.kind = "Ok"

\* The aisle of the floor with a slot aisle's cluster and number.
OnFloor(a) == {f \in FloorAisles : f.cluster = a.cluster /\ f.aisle_num = a.aisle_num}

\* C19: after propose_slot succeeds with lock_on_insert = true the inserted
\* slot is locked and every aisle of it is locked as seen through the floor
\* and its aisle pairs, so that a later propose_slot whose candidate is built
\* from the floor and holds any of those aisles is rejected for holding a
\* locked aisle.
C19_LockOnInsert ==
    (call.op = "add_stow_slot" /\ call.is_locked /\ ret.kind = "Ok") =>
    LET inserted == stow_slots[Len(stow_slots)]
    IN  /\ inserted.locked
        /\ \A x \in 1..Len(inserted.aisles) :
              /\ inserted.aisles[x].locked
              /\ \A f \in OnFloor(inserted.aisles[x]) : f.locked
              /\ \A c \in FloorClusters : \A p \in 1..Len(c.aisle_pairs) :
                    \A a \in {Unwrap(o) : o \in {c.aisle_pairs[p].aisle1,
                                                  c.aisle_pairs[p].aisle2} \ {None}} :
                        (a.cluster = inserted.aisles[x].cluster
                         /\ a.aisle_num = inserted.aisles[x].aisle_num) => a.locked
              /\ \A f \in OnFloor(inserted.aisles[x]) :
                    AddStowSlotOutcome(stow_slots, floor,
                                       StowSlotNew(f.cluster, <<RcClone(f)>>), FALSE).ret
                    = Err(ErrLockedAisles)

====
